---- MODULE Spec2Model ----
\* A model of the event emitter of src/events/emitter.go: the registry of
\* HandlerSets, the one-time emission cache, the RWMutex guarding both, the
\* client calls On / Once / Off / Emit / EmitOnce and the dispatch goroutine
\* every Emit spawns.  Payloads live in a heap of mapping objects so that
\* aliasing between the caller's object, the emitter's copies and the cache
\* is something the model decides, not something it assumes.
EXTENDS Integers, Sequences, FiniteSets, TLC

\* ------------------------------------------------------------------ bounds
MaxCalls == 4       \* calls made into the Emitter over a run
MaxMixedCalls == 3  \* the same, unless the run is of On and Emit("x", nil) only
MaxRegs == 2        \* of them On/Once calls
MaxEmits == 2       \* of them Emit/EmitOnce calls
MaxOffs == 1        \* of them Off calls
NumTasks == 2       \* client goroutines calling into the Emitter
StackLimit == 3     \* frames of copyData the goroutine stack can hold

Tasks == 1..NumTasks

\* ------------------------------------------------------------- event names
\* An event name is the sequence of its ':'-separated segments, so that
\* "before:" + evt and strings.HasPrefix(evt, "before:") are computed.
X == <<"x">>
Before(evt) == <<"before">> \o evt
After(evt) == <<"after">> \o evt
HasMetaPrefix(evt) == Len(evt) > 1 /\ evt[1] \in {"before", "after"}
Events == {X, Before(X)}
RegKeys == {Before(X), X, After(X)}

\* ------------------------------------------------------------------ errors
Nil == "nil"
ErrHalt == "ErrHalt"
ErrOther == "error"
Results == {Nil, ErrHalt, ErrOther}

\* ---------------------------------------------------------------- payloads
\* A payload tree: a function from keys to nodes; a node is a scalar
\* [t |-> "int", v |-> n], a nested mapping [t |-> "Data" | "map", m |-> tree]
\* ("Data" is the wrapped type events.Data, "map" a plain
\* map[string]interface{}), or a slice [t |-> "slice", ref |-> a]: the slice
\* header, which refers to a backing array a that the caller made.
Int1(n) == [t |-> "int", v |-> n]
EmptyTree == << >>
FlatTree == "a" :> Int1(1)
FlatTree2 == "a" :> Int1(2)
PlainTree == "n" :> [t |-> "map", m |-> ("b" :> Int1(2))]
DataTree == "n" :> [t |-> "Data", m |-> ("b" :> Int1(2))]
CallerArray == [kind |-> "array", id |-> 0, path |-> << >>]
CallerArrays == CallerArray :> ("0" :> Int1(1))
SliceTree == "s" :> [t |-> "slice", ref |-> CallerArray]

\* What a caller may pass as d: nil, or a mapping object.
NilArg == [isNil |-> TRUE, val |-> EmptyTree]
Arg(tree) == [isNil |-> FALSE, val |-> tree]
Payloads == {NilArg, Arg(FlatTree), Arg(PlainTree), Arg(DataTree), Arg(SliceTree)}
Content(arg) == arg.val

\* The calls a client makes: Emit(evt, d) and EmitOnce(evt, d).
EmitInputs ==
    {<<X, NilArg>>, <<X, Arg(PlainTree)>>, <<X, Arg(DataTree)>>, <<X, Arg(SliceTree)>>,
     <<Before(X), NilArg>>}
EmitOnceInputs ==
    {<<X, Arg(FlatTree)>>, <<X, Arg(FlatTree2)>>, <<X, Arg(PlainTree)>>, <<X, Arg(SliceTree)>>}

\* Heap references.  kind/id name the root object, path the nested one.
Ref(kind, id) == [kind |-> kind, id |-> id, path |-> << >>]
Sub(r, k) == [r EXCEPT !.path = Append(@, k)]
NoRef == Ref("none", 0)

IsMapping(node) == node.t \in {"Data", "map"}

MergeAll(parts) ==
    [r \in UNION {DOMAIN p : p \in parts} |-> (CHOOSE p \in parts : r \in DOMAIN p)[r]]

\* The heap objects of a payload tree rooted at r.
RECURSIVE Alloc(_, _)
Alloc(tree, r) ==
    LET nested == {k \in DOMAIN tree : IsMapping(tree[k])}
        obj == [k \in DOMAIN tree |->
                  IF k \in nested THEN [t |-> tree[k].t, ref |-> Sub(r, k)] ELSE tree[k]]
    IN (r :> obj) @@ MergeAll({Alloc(tree[k].m, Sub(r, k)) : k \in nested})

\* The payload tree a reference denotes.
RECURSIVE Deref(_, _)
Deref(h, r) ==
    [k \in DOMAIN h[r] |->
        IF IsMapping(h[r][k]) THEN [t |-> h[r][k].t, m |-> Deref(h, h[r][k].ref)]
        ELSE h[r][k]]

\* Every object reachable from r, r included.
RECURSIVE Reach(_, _)
Reach(h, r) ==
    {r} \cup UNION {Reach(h, h[r][k].ref) : k \in {j \in DOMAIN h[r] : IsMapping(h[r][j])}}

\* NewData(): a fresh empty mapping at r.
NewData(r) == r :> EmptyTree

\* Which object copyData recurses on for the nested value under k of src.
CopyTargetFixed(h, src, k) == h[src][k].ref
CopyTarget(h, src, k) ==
    IF h[src][k].t = "Data" THEN src ELSE h[src][k].ref

\* copyData(d): the objects of the copy, rooted at dst, or a stack overflow
\* when the recursion does not end within the goroutine's stack.
RECURSIVE copyData(_, _, _, _)
copyData(h, src, dst, depth) ==
    IF depth > StackLimit THEN [ok |-> FALSE, objs |-> << >>]
    ELSE LET nested == {k \in DOMAIN h[src] : IsMapping(h[src][k])}
             rec == [k \in nested |-> copyData(h, CopyTarget(h, src, k), Sub(dst, k), depth + 1)]
             nd == [k \in DOMAIN h[src] |->
                      IF k \in nested THEN [t |-> "Data", ref |-> Sub(dst, k)] ELSE h[src][k]]
         IN IF \A k \in nested : rec[k].ok
            THEN [ok |-> TRUE, objs |-> (dst :> nd) @@ MergeAll({rec[k].objs : k \in nested})]
            ELSE [ok |-> FALSE, objs |-> << >>]

\* A handler's writes to the payload it was given: a top-level key; when the
\* payload has a nested mapping under "n", a key of that nested mapping; and
\* when it has a slice under "s", an element of that slice.
MutateTop(h, d) ==
    [h EXCEPT ![d] = [k \in DOMAIN h[d] \cup {"m"} |-> IF k = "m" THEN Int1(1) ELSE h[d][k]]]
MutateNested(h, d) ==
    IF "n" \in DOMAIN h[d] /\ IsMapping(h[d]["n"])
    THEN LET n == h[d]["n"].ref
         IN [h EXCEPT ![n] = [k \in DOMAIN h[n] \cup {"b"} |-> IF k = "b" THEN Int1(9) ELSE h[n][k]]]
    ELSE h
MutateSlice(h, d) ==
    IF "s" \in DOMAIN h[d] /\ h[d]["s"].t = "slice"
    THEN [h EXCEPT ![h[d]["s"].ref]["0"] = Int1(9)]
    ELSE h
Mutate(h, d) == MutateSlice(MutateNested(MutateTop(h, d), d), d)

\* ------------------------------------------------------------------- state
VARIABLES
    heap,              \* payload objects: reference -> mapping
    handlers,          \* Emitter.handlers: event name -> HandlerSet (index into hsets)
    hsets,             \* every HandlerSet ever made by newHandlers()
    oneTimeEmissions,  \* Emitter.oneTimeEmissions: event name -> cached payload
    mutex,             \* Emitter.mutex
    logger,            \* Emitter.log != nil
    task,              \* the client goroutines and where each is in its call
    disp,              \* one record per Emit/EmitOnce call: its dispatch goroutine
    regs,              \* one record per On/Once call: what happened to its handler
    offs,              \* one record per Off call
    crashed            \* the process died of a goroutine stack overflow

vars == <<heap, handlers, hsets, oneTimeEmissions, mutex, logger, task, disp, regs,
          offs, crashed>>

None == <<"none", 0>>
T(t) == <<"task", t>>
D(i) == <<"emit", i>>

IdleTask == [pc |-> "idle", evt |-> << >>, reg |-> 0, hs |-> 0, ret |-> "idle", d |-> NoRef]

\* sync.RWMutex: a reader enters unless a writer has announced itself; a
\* writer announces itself (one at a time) and then waits for the readers
\* to leave.  Every write section of the Emitter is one step.
CanRLock == mutex.pending = None
CanAnnounce == mutex.pending = None
CanLock(who) == mutex.pending = who /\ mutex.readers = {}
RLocked(who) == [mutex EXCEPT !.readers = @ \cup {who}]
RUnlocked(who) == [mutex EXCEPT !.readers = @ \ {who}]
Announced(who) == [mutex EXCEPT !.pending = who]
Unlocked == [mutex EXCEPT !.pending = None]

\* A client goroutine may start a call while calls are left to make.  The
\* goroutines are interchangeable: a call starts on the first idle one.
Calls == Len(regs) + Len(disp) + Len(offs)
CanCall(t) ==
    /\ ~crashed /\ task[t].pc = "idle"
    /\ Calls < MaxMixedCalls
    /\ \A u \in Tasks : u < t => task[u].pc # "idle"
\* The same for On and Emit("x", nil): these go on to MaxCalls in a run that
\* has had no other call, on an Emitter with a Logger.
PlainRun ==
    /\ logger
    /\ offs = << >>
    /\ \A r \in 1..Len(regs) : ~regs[r].once /\ regs[r].key \in RegKeys
    /\ \A i \in 1..Len(disp) : ~disp[i].once /\ disp[i].arg.isNil /\ disp[i].evt = X
CanCallPlain(t) ==
    /\ ~crashed /\ task[t].pc = "idle"
    /\ Calls < MaxMixedCalls \/ (Calls < MaxCalls /\ PlainRun)
    /\ \A u \in Tasks : u < t => task[u].pc # "idle"

\* The running handler that made the call task t is in (None for a call made
\* by a client), and whether a call made by the handler `who` is in progress:
\* a handler returns only once the calls it made have returned.
CallerOf(t) ==
    IF task[t].pc \in {"OnLock", "OnCreate", "OnAdd", "OnCheck", "OnReplay",
                       "OnceReplay", "OnceLock", "OnceCreate", "OnceAdd"}
    THEN regs[task[t].reg].from
    ELSE IF task[t].pc = "EmitOnce" THEN disp[task[t].reg].from
    ELSE None
Busy(who) == \E t \in Tasks : CallerOf(t) = who

\* ------------------------------------------------------------- HandlerSet
\* The handlers type: an ordered sequence of entries.  add, addOnce, clear and
\* the two accesses of call() (the snapshot it takes when it starts, the
\* removal of a one-time entry it has called) are each one step on the
\* sequence; call() holds nothing while a handler runs, so that calls on one
\* HandlerSet interleave.
newHandlers == [entries |-> << >>]
add(hs, r) == [hs EXCEPT !.entries = Append(@, [reg |-> r, once |-> FALSE])]
addOnce(hs, r) == [hs EXCEPT !.entries = Append(@, [reg |-> r, once |-> TRUE])]
clear(hs) == [hs EXCEPT !.entries = << >>]
\* call(): the entries it will invoke, in order.
Snapshot(hs) == hs.entries
\* call(): what is left of the sequence once entry e has been called: a
\* one-time entry is removed, whatever its handler returned.
AfterCallKeepsOnce(entries, e) == entries
AfterCall(entries, e) ==
    IF e.once THEN SelectSeq(entries, LAMBDA x : x.reg # e.reg) ELSE entries
RegsIn(hs) == {hs.entries[j].reg : j \in 1..Len(hs.entries)}

\* ------------------------------------------------------------ construction
Init ==
    /\ heap = CallerArrays
    /\ handlers = << >>
    /\ hsets = << >>
    /\ oneTimeEmissions = << >>
    /\ mutex = [readers |-> {}, pending |-> None]
    /\ logger = TRUE
    /\ task = [t \in Tasks |-> IdleTask]
    /\ disp = << >>
    /\ regs = << >>
    /\ offs = << >>
    /\ crashed = FALSE

\* ------------------------------------------------------------ registration
Returned == {r \in 1..Len(regs) : regs[r].ret}
CacheAt(key) == IF key \in DOMAIN oneTimeEmissions THEN oneTimeEmissions[key] ELSE NoRef

NewReg(key, once) ==
    [key |-> key, once |-> once, ret |-> FALSE, hs |-> 0, added |-> FALSE,
     created |-> FALSE, cleared |-> FALSE, replays |-> 0, dcalls |-> 0,
     seen |-> EmptyTree, src |-> NoRef, gave |-> NoRef, c0 |-> CacheAt(key), pred |-> Returned,
     from |-> None]

\* Whether On appends the handler (it always does), given whether the
\* HandlerSet was found by the first lookup.
OnAddsOnlyNew(found) == ~found
OnAdds(found) == TRUE

\* Whether a registration replays a cached one-time emission.
ReplaysNever(cached) == FALSE
Replays(cached) == cached

\* The payload a replay hands to the handler: a copy of the cached object.
ReplayDataShared(h, cached, dst) == [ok |-> TRUE, objs |-> << >>, d |-> cached]
ReplayData(h, cached, dst) ==
    LET c == copyData(h, cached, dst, 1) IN [ok |-> c.ok, objs |-> c.objs, d |-> dst]

\* Whether Once returns once it has replayed (it does).
OnceFallsThrough == FALSE
OnceReturnsAfterReplay == TRUE

\* h.Call(d) made by a registration: the handler reads d and writes to it
\* (the error it returns is dropped); the copy is garbage afterwards.
AfterReplay(h, r, d) ==
    LET h1 == Mutate(h, d)
    IN [o \in {q \in DOMAIN h1 : q.kind # "replay" \/ q.id # r} |-> h1[o]]

OnBegin(t, evt) ==
    /\ IF evt \in RegKeys THEN CanCallPlain(t) ELSE CanCall(t)
    /\ Len(regs) < MaxRegs
    /\ CanRLock
    /\ LET r == Len(regs) + 1
           found == evt \in DOMAIN handlers
       IN /\ regs' = Append(regs, [NewReg(evt, FALSE) EXCEPT !.hs = IF found THEN handlers[evt] ELSE 0])
          /\ task' = [task EXCEPT ![t] = [pc |-> IF found THEN "OnAdd" ELSE "OnLock",
                                          evt |-> evt, reg |-> r,
                                          hs |-> IF found THEN handlers[evt] ELSE 0,
                                          ret |-> IF found THEN "found" ELSE "new",
                                          d |-> NoRef]]
    /\ UNCHANGED <<heap, handlers, hsets, oneTimeEmissions, mutex, logger, disp, offs, crashed>>

OnLock(t) ==
    /\ ~crashed /\ task[t].pc = "OnLock"
    /\ CanAnnounce
    /\ mutex' = Announced(T(t))
    /\ task' = [task EXCEPT ![t].pc = "OnCreate"]
    /\ UNCHANGED <<heap, handlers, hsets, oneTimeEmissions, logger, disp, regs, offs, crashed>>

OnCreate(t) ==
    /\ ~crashed /\ task[t].pc = "OnCreate"
    /\ CanLock(T(t))
    /\ hsets' = Append(hsets, newHandlers)
    /\ handlers' = (task[t].evt :> Len(hsets) + 1) @@ handlers
    /\ mutex' = Unlocked
    /\ task' = [task EXCEPT ![t].pc = "OnAdd", ![t].hs = Len(hsets) + 1]
    /\ regs' = [regs EXCEPT ![task[t].reg].hs = Len(hsets) + 1, ![task[t].reg].created = TRUE]
    /\ UNCHANGED <<heap, oneTimeEmissions, logger, disp, offs, crashed>>

OnAdd(t) ==
    /\ ~crashed /\ task[t].pc = "OnAdd"
    /\ IF OnAdds(task[t].ret = "found")
       THEN /\ hsets' = [hsets EXCEPT ![task[t].hs] = add(@, task[t].reg)]
            /\ regs' = [regs EXCEPT ![task[t].reg].added = TRUE]
       ELSE UNCHANGED <<hsets, regs>>
    /\ task' = [task EXCEPT ![t].pc = "OnCheck"]
    /\ UNCHANGED <<heap, handlers, oneTimeEmissions, mutex, logger, disp, offs, crashed>>

OnCheck(t) ==
    /\ ~crashed /\ task[t].pc = "OnCheck"
    /\ CanRLock
    /\ LET r == task[t].reg
           evt == task[t].evt
       IN IF Replays(evt \in DOMAIN oneTimeEmissions)
          THEN LET c == ReplayData(heap, oneTimeEmissions[evt], Ref("replay", r))
               IN IF c.ok
                  THEN /\ heap' = c.objs @@ heap
                       /\ mutex' = RLocked(T(t))
                       /\ task' = [task EXCEPT ![t].pc = "OnReplay", ![t].d = c.d]
                       /\ regs' = [regs EXCEPT ![r].src = oneTimeEmissions[evt], ![r].gave = c.d]
                       /\ UNCHANGED crashed
                  ELSE /\ crashed' = TRUE
                       /\ UNCHANGED <<heap, mutex, task, regs>>
          ELSE /\ task' = [task EXCEPT ![t] = IdleTask]
               /\ regs' = [regs EXCEPT ![r].ret = TRUE]
               /\ UNCHANGED <<heap, mutex, crashed>>
    /\ UNCHANGED <<handlers, hsets, oneTimeEmissions, logger, disp, offs>>

OnReplay(t) ==
    /\ ~crashed /\ task[t].pc = "OnReplay" /\ ~Busy(T(t))
    /\ heap' = AfterReplay(heap, task[t].reg, task[t].d)
    /\ regs' = [regs EXCEPT ![task[t].reg].replays = @ + 1,
                            ![task[t].reg].seen = Deref(heap, task[t].d),
                            ![task[t].reg].ret = TRUE]
    /\ mutex' = RUnlocked(T(t))
    /\ task' = [task EXCEPT ![t] = IdleTask]
    /\ UNCHANGED <<handlers, hsets, oneTimeEmissions, logger, disp, offs, crashed>>

OnceBegin(t, evt) ==
    /\ CanCall(t) /\ Len(regs) < MaxRegs
    /\ CanRLock
    /\ LET r == Len(regs) + 1
           found == evt \in DOMAIN handlers
           me == [IdleTask EXCEPT !.evt = evt, !.reg = r]
       IN IF Replays(evt \in DOMAIN oneTimeEmissions)
          THEN LET c == ReplayData(heap, oneTimeEmissions[evt], Ref("replay", r))
               IN IF c.ok
                  THEN /\ heap' = c.objs @@ heap
                       /\ mutex' = RLocked(T(t))
                       /\ task' = [task EXCEPT ![t] = [me EXCEPT !.pc = "OnceReplay", !.d = c.d]]
                       /\ regs' = Append(regs, [NewReg(evt, TRUE) EXCEPT !.src = oneTimeEmissions[evt], !.gave = c.d])
                       /\ UNCHANGED crashed
                  ELSE /\ crashed' = TRUE
                       /\ UNCHANGED <<heap, mutex, task, regs>>
          ELSE /\ regs' = Append(regs, [NewReg(evt, TRUE) EXCEPT !.hs = IF found THEN handlers[evt] ELSE 0])
               /\ task' = [task EXCEPT ![t] =
                             [me EXCEPT !.pc = IF found THEN "OnceAdd" ELSE "OnceLock",
                                        !.hs = IF found THEN handlers[evt] ELSE 0]]
               /\ UNCHANGED <<heap, mutex, crashed>>
    /\ UNCHANGED <<handlers, hsets, oneTimeEmissions, logger, disp, offs>>

OnceReplay(t) ==
    /\ ~crashed /\ task[t].pc = "OnceReplay" /\ ~Busy(T(t))
    /\ LET r == task[t].reg
           evt == task[t].evt
           found == evt \in DOMAIN handlers
       IN /\ heap' = AfterReplay(heap, r, task[t].d)
          /\ mutex' = RUnlocked(T(t))
          /\ IF OnceReturnsAfterReplay
             THEN /\ task' = [task EXCEPT ![t] = IdleTask]
                  /\ regs' = [regs EXCEPT ![r].replays = @ + 1, ![r].seen = Deref(heap, task[t].d),
                                          ![r].ret = TRUE]
             ELSE /\ task' = [task EXCEPT ![t].pc = IF found THEN "OnceAdd" ELSE "OnceLock",
                                          ![t].hs = IF found THEN handlers[evt] ELSE 0,
                                          ![t].d = NoRef]
                  /\ regs' = [regs EXCEPT ![r].replays = @ + 1, ![r].seen = Deref(heap, task[t].d),
                                          ![r].hs = IF found THEN handlers[evt] ELSE 0]
    /\ UNCHANGED <<handlers, hsets, oneTimeEmissions, logger, disp, offs, crashed>>

OnceLock(t) ==
    /\ ~crashed /\ task[t].pc = "OnceLock"
    /\ CanAnnounce
    /\ mutex' = Announced(T(t))
    /\ task' = [task EXCEPT ![t].pc = "OnceCreate"]
    /\ UNCHANGED <<heap, handlers, hsets, oneTimeEmissions, logger, disp, regs, offs, crashed>>

OnceCreate(t) ==
    /\ ~crashed /\ task[t].pc = "OnceCreate"
    /\ CanLock(T(t))
    /\ hsets' = Append(hsets, newHandlers)
    /\ handlers' = (task[t].evt :> Len(hsets) + 1) @@ handlers
    /\ mutex' = Unlocked
    /\ task' = [task EXCEPT ![t].pc = "OnceAdd", ![t].hs = Len(hsets) + 1]
    /\ regs' = [regs EXCEPT ![task[t].reg].hs = Len(hsets) + 1, ![task[t].reg].created = TRUE]
    /\ UNCHANGED <<heap, oneTimeEmissions, logger, disp, offs, crashed>>

\* How Once enters h in the HandlerSet: as a one-time entry.
OnceAppendsPersistent(hs, r) == add(hs, r)
OnceAppends(hs, r) == addOnce(hs, r)

OnceAdd(t) ==
    /\ ~crashed /\ task[t].pc = "OnceAdd"
    /\ hsets' = [hsets EXCEPT ![task[t].hs] = OnceAppends(@, task[t].reg)]
    /\ regs' = [regs EXCEPT ![task[t].reg].added = TRUE, ![task[t].reg].ret = TRUE]
    /\ task' = [task EXCEPT ![t] = IdleTask]
    /\ UNCHANGED <<heap, handlers, oneTimeEmissions, mutex, logger, disp, offs, crashed>>

\* --------------------------------------------------------------------- Off
Cleared(hs) == [r \in 1..Len(regs) |->
                  IF r \in RegsIn(hs) THEN [regs[r] EXCEPT !.cleared = TRUE] ELSE regs[r]]

CacheAfterOffDropped(cache, key) == [k \in DOMAIN cache \ {key} |-> cache[k]]
\* The one-time cache after e.off(key): off reads the registry and clears a
\* HandlerSet, nothing else.
CacheAfterOff(cache, key) == cache

\* e.off(key), after which the task goes on at `next`.
off(t, evt, key, next) ==
    LET o == IF task[t].pc = "idle" THEN Len(offs) + 1 ELSE task[t].reg
        goOn == IF next = "idle" THEN IdleTask
                ELSE [IdleTask EXCEPT !.pc = next, !.evt = evt, !.reg = o]
    IN /\ CanRLock
       /\ oneTimeEmissions' = CacheAfterOff(oneTimeEmissions, key)
       /\ task' = [task EXCEPT ![t] = goOn]
       /\ IF key \in DOMAIN handlers
          THEN /\ hsets' = [hsets EXCEPT ![handlers[key]] = clear(@)]
               /\ regs' = Cleared(hsets[handlers[key]])
          ELSE UNCHANGED <<hsets, regs>>
       /\ UNCHANGED mutex

\* The key each e.off(...) of Off clears.
OffKeyMainOnly(step, evt) == evt
OffKey(step, evt) ==
    CASE step = "OffBegin" -> Before(evt) [] step = "Off2" -> evt [] step = "Off3" -> After(evt)

NewOff(evt) == [evt |-> evt, pred |-> Returned, ret |-> FALSE, ndisp |-> 0, nregs |-> 0,
                c0 |-> CacheAt(evt)]
\* Off has returned when its task is idle again.
OffReturned(t) ==
    IF task'[t].pc = "idle"
    THEN [offs EXCEPT ![task[t].reg].ret = TRUE, ![task[t].reg].ndisp = Len(disp),
                      ![task[t].reg].nregs = Len(regs)]
    ELSE offs

OffBegin(t, evt) ==
    /\ CanCall(t) /\ Len(offs) < MaxOffs
    /\ off(t, evt, OffKey("OffBegin", evt), "Off2")
    /\ offs' = Append(offs, NewOff(evt))
    /\ UNCHANGED <<heap, handlers, logger, disp, crashed>>

Off2(t) ==
    /\ ~crashed /\ task[t].pc = "Off2"
    /\ off(t, task[t].evt, OffKey("Off2", task[t].evt), "Off3")
    /\ UNCHANGED <<heap, handlers, logger, disp, offs, crashed>>

Off3(t) ==
    /\ ~crashed /\ task[t].pc = "Off3"
    /\ off(t, task[t].evt, OffKey("Off3", task[t].evt), "idle")
    /\ offs' = OffReturned(t)
    /\ UNCHANGED <<heap, handlers, logger, disp, crashed>>

\* -------------------------------------------------------------------- Emit
ChanCap == 1

Phases == {"before", "main", "after"}

\* The key each e.emit(...) of the dispatch goroutine looks up.
PhaseKeySwapped(phase, evt) ==
    CASE phase = "before" -> After(evt) [] phase = "main" -> evt [] phase = "after" -> Before(evt)
PhaseKey(phase, evt) ==
    CASE phase = "before" -> Before(evt) [] phase = "main" -> evt [] phase = "after" -> After(evt)

Successor(phase) ==
    CASE phase = "before" -> "main" [] phase = "main" -> "after" [] phase = "after" -> "finish"

\* Where the goroutine goes on once e.emit(...) returned err: the `if err ==
\* nil` guards skip every remaining phase.
NextPcIgnoreErr(phase, err) == Successor(phase)
NextPc(phase, err) == IF err # Nil THEN "finish" ELSE Successor(phase)

\* The normalisation of d: NewData() for nil, copyData(d) otherwise.
EmitDataNoCopy(h, d, isNil, dst) ==
    IF isNil THEN [ok |-> TRUE, objs |-> NewData(dst), d |-> dst]
    ELSE [ok |-> TRUE, objs |-> << >>, d |-> d]
EmitData(h, d, isNil, dst) ==
    IF isNil THEN [ok |-> TRUE, objs |-> NewData(dst), d |-> dst]
    ELSE LET c == copyData(h, d, dst, 1) IN [ok |-> c.ok, objs |-> c.objs, d |-> dst]

\* The copy EmitOnce caches; ranging over a nil map copies nothing.
CacheData(h, d, isNil, dst) ==
    IF isNil THEN [ok |-> TRUE, objs |-> NewData(dst)]
    ELSE LET c == copyData(h, d, dst, 1) IN [ok |-> c.ok, objs |-> c.objs]

\* The warning Emit logs for a meta event.
WarnsNever(evt) == 0
Warns(evt) == IF HasMetaPrefix(evt) /\ logger THEN 1 ELSE 0

\* What the goroutine logs once the chain has ended with err: the level of
\* the entry, and the entry with its fields.
LogLevelNoHalt(err) == IF err = Nil \/ ~logger THEN "none" ELSE "error"
LogLevel(err) ==
    IF err = Nil \/ ~logger THEN "none" ELSE IF err = ErrHalt THEN "debug" ELSE "error"

LogEntry(level, evt, d, err) ==
    [level |-> level, event |-> evt, data |-> d, error |-> IF level = "error" THEN err ELSE Nil]
Logged(log, evt, d, err) ==
    IF LogLevel(err) = "none" THEN log
    ELSE Append(log, LogEntry(LogLevel(err), evt, d, err))

\* done <- struct{}{}
SignalNone(ch) == ch
Signal(ch) == ch + 1

NewDisp(evt, once, arg) ==
    [evt |-> evt, once |-> once, arg |-> arg, d |-> NoRef, d0 |-> EmptyTree, pc |-> "unborn",
     hs |-> 0, snap |-> << >>, idx |-> 0, err |-> Nil, chan |-> 0, trace |-> << >>, warned |-> 0,
     logged |-> << >>, known |-> {}, from |-> None]

ArgRef(i) == Ref("arg", i)
WithArg(h, i, arg) == IF arg.isNil THEN h ELSE Alloc(arg.val, ArgRef(i)) @@ h

Emit(t, evt, arg) ==
    /\ IF arg.isNil /\ evt = X THEN CanCallPlain(t) ELSE CanCall(t)
    /\ Len(disp) < MaxEmits
    /\ LET i == Len(disp) + 1
           h1 == WithArg(heap, i, arg)
           e == EmitData(h1, ArgRef(i), arg.isNil, Ref("emit", i))
           h2 == e.objs @@ h1
           new == [NewDisp(evt, FALSE, arg) EXCEPT !.warned = Warns(evt)]
       IN IF e.ok
          THEN /\ heap' = h2
               /\ disp' = Append(disp, [new EXCEPT !.d = e.d, !.d0 = Deref(h2, e.d),
                                                   !.pc = "before", !.known = Returned])
               /\ UNCHANGED crashed
          ELSE /\ heap' = h1
               /\ disp' = Append(disp, new)
               /\ crashed' = TRUE
    /\ UNCHANGED <<handlers, hsets, oneTimeEmissions, mutex, logger, task, regs, offs>>

EmitOnceBegin(t, evt, arg) ==
    /\ CanCall(t) /\ Len(disp) < MaxEmits
    /\ CanAnnounce
    /\ mutex' = Announced(T(t))
    /\ heap' = WithArg(heap, Len(disp) + 1, arg)
    /\ disp' = Append(disp, NewDisp(evt, TRUE, arg))
    /\ task' = [task EXCEPT ![t] = [IdleTask EXCEPT !.pc = "EmitOnce", !.evt = evt,
                                                   !.reg = Len(disp) + 1]]
    /\ UNCHANGED <<handlers, hsets, oneTimeEmissions, logger, regs, offs, crashed>>

CachedMainOnly(cache, evt, d) ==
    [k \in DOMAIN cache \cup {evt} |-> IF k = evt THEN d ELSE cache[k]]
\* The cache once EmitOnce(evt, .) has stored d: the three names of evt map
\* to d, whatever they mapped to.
CachedFirstWins(cache, evt, d) ==
    [k \in DOMAIN cache \cup {Before(evt), evt, After(evt)} |->
        IF k \in DOMAIN cache THEN cache[k] ELSE d]
Cached(cache, evt, d) ==
    [k \in DOMAIN cache \cup {Before(evt), evt, After(evt)} |->
        IF k \in {Before(evt), evt, After(evt)} THEN d ELSE cache[k]]

EmitOnce(t) ==
    /\ ~crashed /\ task[t].pc = "EmitOnce"
    /\ CanLock(T(t))
    /\ LET i == task[t].reg
           evt == task[t].evt
           cached == Ref("once", i)
           c == CacheData(heap, ArgRef(i), disp[i].arg.isNil, cached)
           h1 == c.objs @@ heap
           e == EmitData(h1, cached, FALSE, Ref("emit", i))
           h2 == e.objs @@ h1
       IN IF c.ok /\ e.ok
          THEN /\ heap' = h2
               /\ oneTimeEmissions' = Cached(oneTimeEmissions, evt, cached)
               /\ disp' = [disp EXCEPT ![i].d = e.d, ![i].d0 = Deref(h2, e.d), ![i].pc = "before",
                                       ![i].known = Returned, ![i].warned = Warns(evt)]
               /\ mutex' = Unlocked
               /\ task' = [task EXCEPT ![t] = IdleTask]
               /\ UNCHANGED crashed
          ELSE IF c.ok
          THEN \* The copy made by Emit overflows the stack: the cache has been
               \* written and Emit has warned; the write lock is never released.
               /\ heap' = h1
               /\ oneTimeEmissions' = Cached(oneTimeEmissions, evt, cached)
               /\ disp' = [disp EXCEPT ![i].warned = Warns(evt)]
               /\ crashed' = TRUE
               /\ UNCHANGED <<mutex, task>>
          ELSE \* The first copy overflows the stack: nothing has been written.
               /\ crashed' = TRUE
               /\ UNCHANGED <<heap, oneTimeEmissions, disp, mutex, task>>
    /\ UNCHANGED <<handlers, hsets, logger, regs, offs>>

\* ------------------------------------------------- the dispatch goroutine
InCall(i) == disp[i].hs # 0

\* e.emit(key, d) up to the first handler: the lookup under RLock and the
\* start of hs.call(d); with no HandlerSet or no entry, e.emit returns nil.
emitEnter(i) ==
    /\ ~crashed /\ disp[i].pc \in Phases /\ disp[i].hs = 0
    /\ CanRLock
    /\ LET key == PhaseKey(disp[i].pc, disp[i].evt)
       IN IF key \notin DOMAIN handlers \/ Snapshot(hsets[handlers[key]]) = << >>
          THEN /\ disp' = [disp EXCEPT ![i].pc = NextPc(disp[i].pc, Nil)]
               /\ UNCHANGED mutex
          ELSE /\ mutex' = RLocked(D(i))
               /\ disp' = [disp EXCEPT ![i].hs = handlers[key], ![i].idx = 1,
                                       ![i].snap = Snapshot(hsets[handlers[key]])]
    /\ UNCHANGED <<heap, handlers, hsets, oneTimeEmissions, logger, task, regs, offs, crashed>>

\* One iteration of hs.call(d): the handler is called with d, writes to it
\* and returns res; a once entry is dropped; on an error, or after the last
\* entry, call and emit return.
callStep(i, res) ==
    /\ ~crashed /\ InCall(i) /\ ~Busy(D(i))
    /\ LET s == disp[i].hs
           e == disp[i].snap[disp[i].idx]
           over == res # Nil \/ disp[i].idx = Len(disp[i].snap)
           entry == [reg |-> e.reg, key |-> PhaseKey(disp[i].pc, disp[i].evt), res |-> res,
                     saw |-> Deref(heap, disp[i].d)]
       IN /\ heap' = Mutate(heap, disp[i].d)
          /\ regs' = [regs EXCEPT ![e.reg].dcalls = @ + 1]
          /\ hsets' = [hsets EXCEPT ![s].entries = AfterCall(@, e)]
          /\ mutex' = IF over THEN RUnlocked(D(i)) ELSE mutex
          /\ disp' = [disp EXCEPT ![i].trace = Append(@, entry),
                                  ![i].idx = IF over THEN 0 ELSE @ + 1,
                                  ![i].snap = IF over THEN << >> ELSE @,
                                  ![i].hs = IF over THEN 0 ELSE @,
                                  ![i].err = IF over THEN res ELSE @,
                                  ![i].pc = IF over THEN NextPc(@, res) ELSE @]
    /\ UNCHANGED <<handlers, oneTimeEmissions, logger, task, offs, crashed>>

\* The end of the goroutine: the log entry for err, then the completion
\* signal.
finish(i) ==
    /\ ~crashed /\ disp[i].pc = "finish"
    /\ disp[i].chan < ChanCap
    /\ disp' = [disp EXCEPT ![i].logged = Logged(@, disp[i].evt, disp[i].d, disp[i].err),
                            ![i].chan = Signal(@), ![i].pc = "done"]
    /\ UNCHANGED <<heap, handlers, hsets, oneTimeEmissions, mutex, logger, task, regs, offs,
                   crashed>>

\* ------------------------------------------------------------------- Next
Next ==
    \/ \E t \in Tasks, evt \in RegKeys : OnBegin(t, evt)
    \/ \E t \in Tasks : OnLock(t)
    \/ \E t \in Tasks : OnCreate(t)
    \/ \E t \in Tasks : OnAdd(t)
    \/ \E t \in Tasks : OnCheck(t)
    \/ \E t \in Tasks : OnReplay(t)
    \/ \E t \in Tasks, evt \in RegKeys : OnceBegin(t, evt)
    \/ \E t \in Tasks : OnceReplay(t)
    \/ \E t \in Tasks : OnceLock(t)
    \/ \E t \in Tasks : OnceCreate(t)
    \/ \E t \in Tasks : OnceAdd(t)
    \/ \E t \in Tasks, evt \in Events : OffBegin(t, evt)
    \/ \E t \in Tasks : Off2(t)
    \/ \E t \in Tasks : Off3(t)
    \/ \E t \in Tasks, in \in EmitInputs : Emit(t, in[1], in[2])
    \/ \E t \in Tasks, in \in EmitOnceInputs : EmitOnceBegin(t, in[1], in[2])
    \/ \E t \in Tasks : EmitOnce(t)
    \/ \E i \in 1..Len(disp) : emitEnter(i)
    \/ \E i \in 1..Len(disp), res \in Results : callStep(i, res)
    \/ \E i \in 1..Len(disp) : finish(i)

Spec == Init /\ [][Next]_vars

\* An Emitter built with or without a Logger, whose clients also register
\* for a name of a meta event and emit the other meta event directly.
InitAnyLogger ==
    /\ heap = CallerArrays
    /\ handlers = << >>
    /\ hsets = << >>
    /\ oneTimeEmissions = << >>
    /\ mutex = [readers |-> {}, pending |-> None]
    /\ logger \in BOOLEAN
    /\ task = [t \in Tasks |-> IdleTask]
    /\ disp = << >>
    /\ regs = << >>
    /\ offs = << >>
    /\ crashed = FALSE

MetaKeys == {After(Before(X))}

NextAnyLogger ==
    \/ Next
    \/ \E t \in Tasks, evt \in MetaKeys : OnBegin(t, evt)
    \/ \E t \in Tasks : Emit(t, After(X), NilArg)

SpecAnyLogger == InitAnyLogger /\ [][NextAnyLogger]_vars

\* Handlers that call back into the Emitter.  The handlers that are running:
\* the one a dispatch is calling and the one a registration is replaying to.
Running ==
    {D(i) : i \in {j \in 1..Len(disp) : InCall(j)}}
    \cup {T(u) : u \in {v \in Tasks : task[v].pc \in {"OnReplay", "OnceReplay"}}}

\* The running handler `who` calls On(evt, h) for a name with no HandlerSet:
\* On up to the lookup that misses, run on goroutine t of the handler's call.
HandlerOn(who, t, evt) ==
    /\ CanCall(t) /\ Len(regs) < MaxRegs
    /\ who \in Running /\ ~Busy(who)
    /\ evt \notin DOMAIN handlers
    /\ CanRLock
    /\ regs' = Append(regs, [NewReg(evt, FALSE) EXCEPT !.from = who])
    /\ task' = [task EXCEPT ![t] = [pc |-> "OnLock", evt |-> evt, reg |-> Len(regs) + 1,
                                    hs |-> 0, ret |-> "new", d |-> NoRef]]
    /\ UNCHANGED <<heap, handlers, hsets, oneTimeEmissions, mutex, logger, disp, offs, crashed>>

\* The running handler `who` calls EmitOnce(evt, d): EmitOnce up to its
\* e.mutex.Lock().
HandlerEmitOnce(who, t, evt, arg) ==
    /\ CanCall(t) /\ Len(disp) < MaxEmits
    /\ who \in Running /\ ~Busy(who)
    /\ CanAnnounce
    /\ mutex' = Announced(T(t))
    /\ heap' = WithArg(heap, Len(disp) + 1, arg)
    /\ disp' = Append(disp, [NewDisp(evt, TRUE, arg) EXCEPT !.from = who])
    /\ task' = [task EXCEPT ![t] = [IdleTask EXCEPT !.pc = "EmitOnce", !.evt = evt,
                                                   !.reg = Len(disp) + 1]]
    /\ UNCHANGED <<handlers, hsets, oneTimeEmissions, logger, regs, offs, crashed>>

Callers == {D(i) : i \in 1..MaxEmits} \cup {T(u) : u \in Tasks}

NextReentrant ==
    \/ Next
    \/ \E who \in Callers, t \in Tasks, evt \in RegKeys : HandlerOn(who, t, evt)
    \/ \E who \in Callers, t \in Tasks : HandlerEmitOnce(who, t, X, Arg(FlatTree))

SpecReentrant == Init /\ [][NextReentrant]_vars

\* ================================================================== claims
Disps == 1..Len(disp)
Regs == 1..Len(regs)

\* The phase of dispatch i that a handler registered under `key` belongs to.
Rank(i, key) ==
    IF key = Before(disp[i].evt) THEN 1
    ELSE IF key = disp[i].evt THEN 2
    ELSE IF key = After(disp[i].evt) THEN 3
    ELSE 0
RankAt(i, a) == Rank(i, regs[disp[i].trace[a].reg].key)
Ended(i) == disp[i].pc \in {"finish", "done"}

\* C1: within one dispatch of Emit(E, d) every invocation of a handler
\* registered for before:E precedes every invocation of one registered for E,
\* which precedes every invocation of one registered for after:E.
C1_PhaseOrder ==
    \A i \in Disps : \A a, b \in 1..Len(disp[i].trace) :
        /\ RankAt(i, a) \in 1..3
        /\ a < b => RankAt(i, a) <= RankAt(i, b)

C1_Witness ==
    \E i, j \in Disps :
        /\ i # j
        /\ Len(disp[i].trace) = 2 /\ RankAt(i, 1) < RankAt(i, 2) /\ disp[i].pc # "done"
        /\ InCall(j) /\ Len(disp[j].trace) = 1 /\ RankAt(j, 1) = 1

\* C2: a handler that returns a non-nil error, ErrHalt or any other, is the
\* last handler its dispatch invokes: the chain has ended with that error.
C2_ErrorStopsChain ==
    \A i \in Disps : \A a \in 1..Len(disp[i].trace) :
        disp[i].trace[a].res # Nil =>
            /\ a = Len(disp[i].trace)
            /\ Ended(i) /\ disp[i].hs = 0
            /\ disp[i].err = disp[i].trace[a].res

C2_Witness ==
    \E i \in Disps :
        /\ disp[i].pc = "done" /\ disp[i].err = ErrHalt
        /\ Len(disp[i].trace) = 1 /\ RankAt(i, 1) = 1
        /\ disp[i].evt \in DOMAIN handlers
        /\ hsets[handlers[disp[i].evt]].entries # << >>

\* C3: a call's completion channel holds no value until its dispatch has
\* ended and exactly one from then on; the write is the goroutine's last
\* step, it finds room in the channel, and it is made to the call's own
\* channel only; no handler of the dispatch is invoked after it.
C3_State ==
    \A i \in Disps :
        /\ disp[i].chan \in {0, 1}
        /\ disp[i].chan = 1 <=> disp[i].pc = "done"
        /\ disp[i].pc = "finish" => disp[i].chan < ChanCap
C3_Step ==
    \A i \in Disps :
        /\ disp'[i].chan # disp[i].chan =>
              /\ disp[i].pc = "finish" /\ disp[i].chan = 0 /\ disp'[i].chan = 1
              /\ \A j \in Disps \ {i} : disp'[j].chan = disp[j].chan
        /\ disp[i].chan = 1 => disp'[i].trace = disp[i].trace /\ disp'[i].chan = 1
C3_OneSignal == []C3_State /\ [][C3_Step]_vars

C3_Witness ==
    /\ Len(disp) = 2
    /\ \A i \in Disps : disp[i].pc = "done" /\ disp[i].chan = 1
    /\ \E i \in Disps : disp[i].err # Nil
    /\ \E i \in Disps : disp[i].err = Nil /\ disp[i].trace # << >>

\* C4: every Emit and EmitOnce call ends with its dispatch done and its
\* completion signal in the channel: the system never comes to rest with a
\* call whose dispatch has not completed.
C4_EveryDispatchCompletes ==
    (\A i \in Disps : disp[i].pc = "done" /\ disp[i].chan = 1) \/ ENABLED Next

\* The persistent handlers of the main phase of dispatch i: registered by an
\* On(E, .) that had returned before the Emit call began.
MainHandlers(i) ==
    {r \in Regs : ~regs[r].once /\ regs[r].key = disp[i].evt /\ r \in disp[i].known}
\* Registration calls for E came one after the other and no Off removed them.
Sequential(key) ==
    \A r, q \in {p \in Regs : regs[p].key = key} :
        /\ ~regs[r].cleared
        /\ r # q => (r \in regs[q].pred \/ q \in regs[r].pred)
\* Where in the trace of dispatch i the handler of registration r was invoked.
Positions(i, r) == {a \in 1..Len(disp[i].trace) : disp[i].trace[a].reg = r}
\* The main phase of dispatch i is over and no handler of before:E or E
\* returned an error.
MainPassedClean(i) ==
    /\ disp[i].pc \in {"after", "finish", "done"}
    /\ \A a \in 1..Len(disp[i].trace) : RankAt(i, a) <= 2 => disp[i].trace[a].res = Nil

\* C5: persistent handlers registered for E one after the other are invoked
\* by a later Emit(E, d) in the main phase in registration order, each exactly
\* once, unless a handler of before:E or E returned an error first.
C5_RegistrationOrder ==
    \A i \in Disps : Sequential(disp[i].evt) =>
        \A r1, r2 \in MainHandlers(i) :
            /\ Cardinality(Positions(i, r1)) <= 1
            /\ MainPassedClean(i) => Cardinality(Positions(i, r1)) = 1
            /\ \A a \in Positions(i, r1) : RankAt(i, a) = 2
            /\ r1 \in regs[r2].pred =>
                  \A b \in Positions(i, r2) : \E a \in Positions(i, r1) : a < b

C5_Witness ==
    \E i \in Disps :
        /\ disp[i].pc = "done" /\ Sequential(disp[i].evt)
        /\ MainHandlers(i) = {1, 2} /\ 1 \in regs[2].pred
        /\ Len(disp[i].trace) = 2
        /\ disp[i].trace[1].reg = 1 /\ disp[i].trace[2].reg = 2

\* C6: every handler of a dispatch is handed the payload as the Emit call
\* made it: no handler sees what an earlier handler of the dispatch wrote.
C6_HandlersSeeFreshCopy ==
    \A i \in Disps : \A a \in 1..Len(disp[i].trace) : disp[i].trace[a].saw = disp[i].d0

\* The value a reference denotes, the elements of its slices included, and
\* the value of d as a caller passes it.
RECURSIVE Value(_, _)
Value(h, r) ==
    [k \in DOMAIN h[r] |->
        IF h[r][k].t \in {"Data", "map", "slice"}
        THEN [t |-> h[r][k].t, m |-> Value(h, h[r][k].ref)]
        ELSE h[r][k]]
Passed(arg) == Value(Alloc(arg.val, Ref("arg", 0)) @@ CallerArrays, Ref("arg", 0))

\* The payload objects the Emitter hands out or keeps: each dispatch's d and
\* each cached one-time emission.
EmitterRoots ==
    {disp[j].d : j \in {k \in Disps : disp[k].d # NoRef}}
    \cup {oneTimeEmissions[k] : k \in DOMAIN oneTimeEmissions}

\* C7: the object a caller passed to Emit or EmitOnce stays as it was at the
\* call, its keys, its values (the elements of a slice among them) and its
\* nested mappings, whatever the handlers write, and shares no mapping with
\* a payload of the Emitter; an Emit with nil hands its handlers an empty mapping that is
\* an object of its own.
C7_CallerObjectUnchanged ==
    \A i \in Disps :
        IF disp[i].arg.isNil
        THEN (~disp[i].once /\ disp[i].pc # "unborn") =>
                /\ disp[i].d \in DOMAIN heap
                /\ disp[i].d0 = EmptyTree
                /\ disp[i].trace # << >> => disp[i].trace[1].saw = EmptyTree
        ELSE /\ ArgRef(i) \in DOMAIN heap
             /\ Value(heap, ArgRef(i)) = Passed(disp[i].arg)
             /\ \A root \in EmitterRoots : Reach(heap, ArgRef(i)) \cap Reach(heap, root) = {}

C7_Witness ==
    /\ Len(disp) = 2
    /\ \E i \in Disps :
          /\ disp[i].arg = Arg(PlainTree) /\ disp[i].pc = "done" /\ disp[i].trace # << >>
          /\ Deref(heap, disp[i].d)["n"].m["b"] = Int1(9)
          /\ Deref(heap, ArgRef(i)) = PlainTree
    /\ \E i \in Disps :
          /\ disp[i].arg = NilArg /\ disp[i].pc = "done" /\ disp[i].trace # << >>
          /\ disp[i].trace[1].saw = EmptyTree

\* Every HandlerSet entry made by registration r.
Registered(r) == \E s \in 1..Len(hsets) : r \in RegsIn(hsets[s])

C8_State ==
    \A r \in Regs : regs[r].once =>
        /\ regs[r].replays <= 1
        /\ regs[r].replays = 1 => (regs[r].dcalls = 0 /\ ~regs[r].added)
        /\ \A i \in Disps :
              Cardinality({a \in 1..Len(disp[i].trace) : disp[i].trace[a].reg = r}) <= 1
        /\ regs[r].dcalls >= 1 => ~Registered(r)
C8_Step ==
    \A i \in Disps : (disp[i].hs = 0 /\ disp'[i].hs # 0) =>
        \A a \in 1..Len(disp'[i].snap) :
            regs[disp'[i].snap[a].reg].once => regs[disp'[i].snap[a].reg].dcalls = 0
C9_ReplayOnRegistration ==
    \A r \in Regs : (regs[r].ret /\ regs[r].c0 # NoRef) =>
        /\ regs[r].replays = 1
        /\ regs[r].src.kind = "once" /\ regs[r].src.id >= regs[r].c0.id
        /\ LET j == regs[r].src.id
           IN /\ disp[j].once
              /\ regs[r].key \in {Before(disp[j].evt), disp[j].evt, After(disp[j].evt)}
              /\ regs[r].seen = Content(disp[j].arg)
              /\ Deref(heap, regs[r].src) = Content(disp[j].arg)
        /\ regs[r].gave.kind = "replay" /\ regs[r].gave # regs[r].src

C9_Witness ==
    \E r, q \in Regs :
        /\ ~regs[r].once /\ regs[q].once
        /\ regs[r].ret /\ regs[q].ret
        /\ regs[r].c0 # NoRef /\ regs[q].c0 # NoRef
        /\ regs[r].replays = 1 /\ regs[q].replays = 1
        /\ regs[r].seen = FlatTree /\ regs[q].seen = FlatTree
        /\ regs[r].key # regs[q].key

\* C10: a Once(E, h) that found a one-time emission cached for E makes no
\* HandlerSet and enters h in none, so that no dispatch ever invokes h; an
\* On(E, h) that began in the same situation has replayed to h and entered
\* h in the HandlerSet, where it stays until an Off.
C10_OnceCachedNotRegistered ==
    \A r \in Regs : regs[r].c0 # NoRef =>
        IF regs[r].once
        THEN /\ ~regs[r].added /\ ~regs[r].created /\ regs[r].hs = 0
             /\ ~Registered(r)
             /\ regs[r].dcalls = 0
             /\ regs[r].ret => regs[r].replays = 1
        ELSE regs[r].ret =>
                /\ regs[r].replays = 1 /\ regs[r].added
                /\ ~regs[r].cleared => r \in RegsIn(hsets[regs[r].hs])

C10_Witness ==
    \E r \in Regs :
        /\ regs[r].once /\ regs[r].c0 # NoRef /\ regs[r].ret /\ regs[r].key = X
        /\ X \notin DOMAIN handlers
        /\ Len(disp) = 2 /\ disp[1].once /\ ~disp[2].once
        /\ disp[2].evt = X /\ r \in disp[2].known
        /\ disp[2].pc = "done" /\ disp[2].trace = << >>

\* The EmitOnce calls that have returned, in the order they were made.
OnceReturned == {j \in Disps : disp[j].once /\ disp[j].pc # "unborn"}
\* The latest EmitOnce that has returned for a name of which key is one.
LatestOnce(key) ==
    LET js == {j \in OnceReturned :
                  key \in {Before(disp[j].evt), disp[j].evt, After(disp[j].evt)}}
    IN IF js = {} THEN 0 ELSE CHOOSE j \in js : \A k \in js : k <= j

\* An EmitOnce has stopped inside its write section, after it stored its
\* copy: the copy made by Emit has overflowed the stack. The write lock stays
\* held, so that no reader sees the cache of such a state.
Writing ==
    \E t \in Tasks : task[t].pc = "EmitOnce" /\ Ref("once", task[t].reg) \in DOMAIN heap

\* C11: whenever no EmitOnce is inside its write section, the cache holds,
\* for each name, the payload of the latest EmitOnce
\* that has returned for it, and no longer that of an earlier one; a
\* registration is replayed with what was cached when it was made: with d1
\* when it returned before the second EmitOnce began, with d2 when it began
\* after the second returned; no registration is replayed twice and a
\* once-handler that was replayed is invoked by no dispatch.
C11_CacheOverwritten ==
    /\ \A key \in RegKeys :
          IF Writing THEN TRUE
          ELSE IF LatestOnce(key) = 0 THEN key \notin DOMAIN oneTimeEmissions
          ELSE /\ key \in DOMAIN oneTimeEmissions
               /\ oneTimeEmissions[key] = Ref("once", LatestOnce(key))
               /\ Deref(heap, oneTimeEmissions[key]) = Content(disp[LatestOnce(key)].arg)
    /\ \A r \in Regs :
          /\ regs[r].replays <= 1
          /\ (regs[r].once /\ regs[r].replays = 1) => regs[r].dcalls = 0
          /\ \A j \in OnceReturned :
                (regs[r].ret /\ regs[r].c0 # NoRef) =>
                   /\ (r \in disp[j].known /\ j > regs[r].c0.id) =>
                         /\ regs[r].src = regs[r].c0
                         /\ regs[r].seen = Content(disp[regs[r].c0.id].arg)
                   /\ (regs[r].c0.id = j /\ LatestOnce(regs[r].key) = j) =>
                         /\ regs[r].src = Ref("once", j)
                         /\ regs[r].seen = Content(disp[j].arg)

C11_Witness ==
    /\ Len(disp) = 2 /\ OnceReturned = {1, 2}
    /\ Content(disp[1].arg) # Content(disp[2].arg)
    /\ \E r \in Regs :
          /\ regs[r].ret /\ regs[r].c0 = Ref("once", 2) /\ regs[r].key = After(X)
          /\ regs[r].replays = 1 /\ regs[r].seen = Content(disp[2].arg)

Offs == 1..Len(offs)
KeysOf(evt) == {Before(evt), evt, After(evt)}
\* Every registration for a name of Off call o had returned when o began.
NoLaterRegistration(o) ==
    \A r \in Regs : regs[r].key \in KeysOf(offs[o].evt) => r \in offs[o].pred
\* The step is one of an Off call made by task t.
OffStep(t) ==
    /\ task'[t] # task[t]
    /\ task[t].pc \in {"Off2", "Off3"} \/ Len(offs') > Len(offs)

\* C12: once Off(E) has returned, and with no registration for its names
\* since it began, the HandlerSets of before:E, E and after:E are empty and a
\* dispatch of E begun afterwards invokes no handler and ends with its
\* completion signal.
C12_State ==
    \A o \in Offs : (offs[o].ret /\ NoLaterRegistration(o)) =>
        /\ \A k \in KeysOf(offs[o].evt) \cap DOMAIN handlers :
              hsets[handlers[k]].entries = << >>
        /\ \A i \in Disps : (i > offs[o].ndisp /\ disp[i].evt = offs[o].evt) =>
              /\ disp[i].trace = << >>
              /\ disp[i].err = Nil
              /\ disp[i].pc = "done" => disp[i].chan = 1
\* Every step of Off leaves the registry as it is, makes no HandlerSet, and
\* changes no HandlerSet but one the registry has for a name of E, which it
\* empties.
C12_Step ==
    \A t \in Tasks : OffStep(t) =>
        LET evt == IF task[t].pc = "idle" THEN task'[t].evt ELSE task[t].evt
        IN /\ handlers' = handlers
           /\ Len(hsets') = Len(hsets)
           /\ \A s \in 1..Len(hsets) : hsets'[s] # hsets[s] =>
                 /\ \E k \in KeysOf(evt) \cap DOMAIN handlers : handlers[k] = s
                 /\ hsets'[s].entries = << >>
C12_OffClears == []C12_State /\ [][C12_Step]_vars

C12_Witness ==
    \E o \in Offs :
        /\ offs[o].ret /\ offs[o].evt = X /\ NoLaterRegistration(o)
        /\ \E r \in Regs : regs[r].key = After(X) /\ regs[r].cleared
        /\ \E i \in Disps : /\ i > offs[o].ndisp /\ disp[i].evt = X
                            /\ disp[i].pc = "done" /\ disp[i].chan = 1
                            /\ disp[i].trace = << >>

\* C13: a handler that On or Once has appended is in the HandlerSet the
\* registry maps its name to: no registration call returns having appended
\* its handler to an instance the registry does not refer to.
C13_SingleHandlerSet ==
    \A r \in Regs : (regs[r].ret /\ regs[r].added) =>
        /\ regs[r].key \in DOMAIN handlers
        /\ handlers[regs[r].key] = regs[r].hs

\* Handler code is running in a dispatch: the dispatch is inside call().
HandlerRunning == \E i \in Disps : InCall(i)

\* C14: a task inside Emit or EmitOnce can complete its call while handler
\* code is running: EmitOnce gets the write lock it is waiting for.
C14_CallerNeverWaitsForHandler ==
    \A t \in Tasks : (task[t].pc = "EmitOnce" /\ HandlerRunning) => CanLock(T(t))

\* The event name begins with "before:" or "after:".
IsMeta(evt) == evt[1] \in {"before", "after"}

\* C15: Emit(E, d) logs one warning when E begins with before: or after: and
\* a Logger is present, none otherwise; whatever E is, its dispatch invokes
\* handlers registered for the literal names before:E, E, after:E, in that
\* order, and its completion signal is there once it is done.
C15_MetaEventWarned ==
    \A i \in Disps : disp[i].pc # "unborn" =>
        /\ disp[i].warned = IF IsMeta(disp[i].evt) /\ logger THEN 1 ELSE 0
        /\ \A a \in 1..Len(disp[i].trace) :
              LET key == disp[i].trace[a].key
              IN /\ key \in {<<"before">> \o disp[i].evt, disp[i].evt, <<"after">> \o disp[i].evt}
                 /\ regs[disp[i].trace[a].reg].key = key
                 /\ \A b \in 1..Len(disp[i].trace) : a < b => RankAt(i, a) <= RankAt(i, b)
        /\ disp[i].pc = "done" => disp[i].chan = 1

C15_Witness ==
    /\ logger
    /\ \E i \in Disps :
          /\ disp[i].evt = <<"before", "x">> /\ disp[i].warned = 1
          /\ disp[i].pc = "done" /\ disp[i].chan = 1
          /\ Len(disp[i].trace) = 2
          /\ disp[i].trace[1].key = <<"before", "x">>
          /\ disp[i].trace[2].key = <<"after", "before", "x">>

\* C16: a dispatch has logged nothing until it ends; it then has logged
\* exactly one entry when it ended with an error and the Emitter has a
\* Logger: a debug entry for ErrHalt, an error entry that carries the error
\* for any other, either with the event name and the payload the handlers
\* were given; and nothing when it ended without error or the Emitter has no
\* Logger; in every case the caller gets the one completion signal.
C16_State ==
    \A i \in Disps :
        /\ disp[i].logged =
              IF disp[i].pc = "done" /\ logger /\ disp[i].err # Nil
              THEN << [level |-> IF disp[i].err = ErrHalt THEN "debug" ELSE "error",
                       event |-> disp[i].evt,
                       data |-> disp[i].d,
                       error |-> IF disp[i].err = ErrHalt THEN Nil ELSE disp[i].err] >>
              ELSE << >>
        /\ \A a \in 1..Len(disp[i].logged) : disp[i].logged[a].data \in DOMAIN heap
        /\ disp[i].pc = "done" => disp[i].chan = 1
        /\ disp[i].pc # "done" => disp[i].chan = 0
C16_Step ==
    \A i \in Disps : disp'[i].logged # disp[i].logged =>
        /\ disp[i].pc = "finish" /\ disp[i].logged = << >>
        /\ disp'[i].chan = disp[i].chan + 1
C16_ErrorsEndAtLogger == []C16_State /\ [][C16_Step]_vars

C16_Witness ==
    /\ logger /\ Len(disp) = 2
    /\ \A i \in Disps : disp[i].pc = "done" /\ disp[i].chan = 1
    /\ \E i \in Disps :
          /\ disp[i].err = ErrHalt /\ Len(disp[i].logged) = 1
          /\ disp[i].logged[1].level = "debug" /\ disp[i].logged[1].event = disp[i].evt
    /\ \E i \in Disps :
          /\ disp[i].err = ErrOther /\ Len(disp[i].logged) = 1
          /\ disp[i].logged[1].level = "error" /\ disp[i].logged[1].event = disp[i].evt
          /\ disp[i].logged[1].data = disp[i].d /\ disp[i].logged[1].error = ErrOther

\* C17: no dispatch holds the Emitter's lock while one of its handlers runs.
C17_NoLockWhileHandlerRuns ==
    \A i \in Disps : InCall(i) => D(i) \notin mutex.readers /\ mutex.pending # D(i)

\* A payload tree without the distinction between the two mapping types.
RECURSIVE Untyped(_)
Untyped(tree) ==
    [k \in DOMAIN tree |->
        IF IsMapping(tree[k]) THEN [t |-> "mapping", m |-> Untyped(tree[k].m)] ELSE tree[k]]

\* C18: copyData(d), which every Emit(E, d) with a d makes, returns a
\* mapping equal to d, nested mappings of either type included, that shares
\* no mapping with d.
C18_CopyIsDeep ==
    \A i \in Disps : (~disp[i].once /\ ~disp[i].arg.isNil) =>
        /\ disp[i].pc # "unborn"
        /\ Untyped(disp[i].d0) = Untyped(Content(disp[i].arg))
        /\ Reach(heap, ArgRef(i)) \cap Reach(heap, disp[i].d) = {}

\* Only an EmitOnce(E, d) and a registration for E were called, nothing else.
OneEmitOnceAnd(once) ==
    /\ Len(disp) = 1 /\ Len(regs) = 1 /\ Len(offs) = 0
    /\ disp[1].once /\ regs[1].once = once
    /\ regs[1].key = disp[1].evt

\* C19: with one EmitOnce(E, d) and one On(E, h), h is never invoked more
\* than once, and has been invoked exactly once when the registration has
\* returned and the dispatch is done.
C19_OnDeliveredOnce ==
    OneEmitOnceAnd(FALSE) =>
        /\ regs[1].replays + regs[1].dcalls <= 1
        /\ (regs[1].ret /\ disp[1].pc = "done") => regs[1].replays + regs[1].dcalls = 1

\* C20: with one EmitOnce(E, d) and one Once(E, h), h has been invoked
\* exactly once when the registration has returned and the dispatch is done.
C20_OnceDelivered ==
    (OneEmitOnceAnd(TRUE) /\ regs[1].ret /\ disp[1].pc = "done") =>
        regs[1].replays + regs[1].dcalls = 1

\* C21: a handler that calls On for a name with no HandlerSet, or EmitOnce,
\* gets its call back: short of a crash, the system does not come to rest
\* with a call that has not returned or a dispatch that is not done.
C21_CallbacksReturn ==
    \/ crashed
    \/ /\ \A t \in Tasks : task[t].pc = "idle"
       /\ \A i \in Disps : disp[i].pc = "done" /\ disp[i].chan = 1
    \/ ENABLED NextReentrant

\* C22: from the moment the dispatch of an EmitOnce(E, d) exists, and so
\* whenever one of its handlers is called, the cache holds under each of
\* before:E, E and after:E the payload of that EmitOnce or of a later one,
\* equal to what that call was given, in every state in which the cache can
\* be read (no EmitOnce is inside its write section).
C22_CacheCompleteBeforeDispatch ==
    \A j \in Disps : (disp[j].once /\ disp[j].pc # "unborn" /\ ~Writing) =>
        \A k \in KeysOf(disp[j].evt) :
            /\ k \in DOMAIN oneTimeEmissions
            /\ oneTimeEmissions[k].kind = "once" /\ oneTimeEmissions[k].id >= j
            /\ disp[oneTimeEmissions[k].id].once
            /\ Deref(heap, oneTimeEmissions[k]) = Content(disp[oneTimeEmissions[k].id].arg)

C22_Witness ==
    \E j \in Disps :
        /\ disp[j].once /\ InCall(j) /\ disp[j].trace = << >>
        /\ \E t \in Tasks :
              /\ task[t].pc = "OnReplay" /\ task[t].evt = After(disp[j].evt)
              /\ regs[task[t].reg].src = Ref("once", j)

\* C23: a registration for a name of E made after Off(E) returned, where
\* Off(E) began with a one-time emission of E cached, is replayed once, with
\* the payload of that EmitOnce or of a later one.
C23_State ==
    \A o \in Offs : \A r \in Regs :
        ( /\ offs[o].ret /\ offs[o].c0 # NoRef
          /\ r > offs[o].nregs /\ regs[r].ret
          /\ regs[r].key \in KeysOf(offs[o].evt) ) =>
            /\ regs[r].replays = 1
            /\ regs[r].src.kind = "once" /\ regs[r].src.id >= offs[o].c0.id
            /\ regs[r].seen = Content(disp[regs[r].src.id].arg)
            /\ regs[r].once => ~regs[r].added
\* No step of Off changes the cache; no step at all takes a name out of the
\* cache; and the only step that changes the cache is the write section of
\* an EmitOnce.
C23_Step ==
    /\ \A t \in Tasks : OffStep(t) => oneTimeEmissions' = oneTimeEmissions
    /\ \A k \in DOMAIN oneTimeEmissions : k \in DOMAIN oneTimeEmissions'
    /\ oneTimeEmissions' # oneTimeEmissions =>
          \E t \in Tasks : task[t].pc = "EmitOnce" /\ (task'[t].pc = "idle" \/ crashed')
C23_OffKeepsCache == []C23_State /\ [][C23_Step]_vars

C23_Witness ==
    \E o \in Offs : \E r \in Regs :
        /\ offs[o].ret /\ offs[o].c0 # NoRef /\ offs[o].evt = X
        /\ r > offs[o].nregs /\ regs[r].ret /\ regs[r].key = X
        /\ regs[r].replays = 1 /\ regs[r].seen = FlatTree
        /\ oneTimeEmissions[X] = offs[o].c0

\* C24: whatever handlers write into the payloads they receive, the object
\* cached by an EmitOnce(E, d) that has returned stays equal to d; its
\* dispatch runs on another object that shares no mapping with the cached
\* one, and so does every replay, each on an object of its own, which the
\* handler receives equal to d, the elements of a slice in d included.
C24_CachedPayloadUnaltered ==
    \A j \in OnceReturned :
        LET c == Ref("once", j)
        IN /\ Value(heap, c) = Passed(disp[j].arg)
           /\ disp[j].d # c
           /\ Reach(heap, disp[j].d) \cap Reach(heap, c) = {}
           /\ \A r \in Regs : (regs[r].replays = 1 /\ regs[r].src = c) =>
                 /\ regs[r].seen = Content(disp[j].arg)
                 /\ regs[r].gave # c /\ regs[r].gave # disp[j].d
                 /\ \A q \in Regs \ {r} : regs[q].replays = 1 => regs[q].gave # regs[r].gave
           /\ \A t \in Tasks : task[t].pc \in {"OnReplay", "OnceReplay"} =>
                 /\ task[t].d # c /\ task[t].d # disp[j].d
                 /\ Reach(heap, task[t].d) \cap Reach(heap, c) = {}
                 /\ regs[task[t].reg].src = c => Value(heap, task[t].d) = Passed(disp[j].arg)

C24_Witness ==
    \E j \in OnceReturned : \E r, q \in Regs :
        /\ r < q
        /\ disp[j].trace # << >> /\ Deref(heap, disp[j].d) # Content(disp[j].arg)
        /\ regs[r].replays = 1 /\ regs[r].src = Ref("once", j) /\ regs[r].ret
        /\ regs[q].replays = 1 /\ regs[q].src = Ref("once", j)
        /\ regs[q].seen = FlatTree
        /\ Deref(heap, oneTimeEmissions[X]) = FlatTree

====
